---- MODULE Spec2Model ----
(***************************************************************************)
(* Anthias Fleet Manager integration: the polling coordinator             *)
(* (coordinator.py), the REST client (api.py) and the media-library cache. *)
(*                                                                         *)
(* JSON values are records [kind, val]: kind is "null", "object", "array"  *)
(* or "envelope" (a mapping that has a `results` key); val is the content  *)
(* as a sequence.  A body of kind "text" is not JSON (its Content-Type is  *)
(* not application/json).  Exceptions are named by their Python class.     *)
(***************************************************************************)
EXTENDS Integers, Sequences, FiniteSets, TLC

VARIABLES
    pc,                  \* position of the refresh cycle: "idle", "list", "sub"
    players,             \* local `players` of _async_update_data
    idx,                 \* index of the record the for loop is at
    step,                \* which of the five sub-fetches is awaited (1..5)
    entry,               \* local `entry` under construction
    result,              \* local `result` under construction
    log,                 \* requests issued by the running / last cycle, with outcome
    cycles,              \* refresh cycles started
    faults,              \* sub-fetch deviations injected so far
    data,                \* coordinator.data, the published snapshot
    last_update_success, \* coordinator.last_update_success
    last_exception,      \* class of coordinator.last_exception
    served,              \* the cycle that last returned: its player list, its number,
                         \* and whether it dropped a key of the snapshot before it
    twin,                \* per wire form: a coordinator fed the same records in that form
    clock,               \* time.monotonic()
    media_cache,         \* coordinator._media_cache
    media_cache_ts,      \* coordinator._media_cache_ts
    call,                \* per caller: the async_get_media_files call in flight
    lastDone,            \* the async_get_media_files call that completed last
    inflight,            \* runs of _async_update_data that have not ended
    client,              \* the Transport Client call made last: method, response, outcome
    act,                 \* the entity or service action awaiting its api call
    done,                \* the action that completed last
    actions,             \* actions started
    setup,               \* per config entry: where its setup or unload stands
    registry,            \* hass.data[DOMAIN]: the entry ids in insertion order
    services,            \* whether the integration's services are registered
    coord,               \* per config entry: data and last_update_success of its coordinator
    first,               \* per config entry: the snapshot its first refresh returned
    entities,            \* per config entry: the entities its platforms added
    svc                  \* the service call handled in the last step, if any

cycleVars == <<pc, players, idx, step, entry, result, log, cycles, faults,
               data, last_update_success, last_exception, served, twin, inflight>>
mediaVars == <<clock, media_cache, media_cache_ts, call, lastDone>>
clientVars == <<client>>
actionVars == <<act, done, actions>>
entryVars == <<setup, registry, services, coord, first, entities, svc>>
vars == <<cycleVars, mediaVars, clientVars, actionVars, entryVars>>

---------------------------------------------------------------------------
\* Bounds of the exploration.
MaxCycles  == 2      \* refresh cycles per behaviour
MaxFaults  == 1      \* sub-fetch responses per behaviour that are not the plain 200 payload
MaxPlayers == 2      \* records in a player-list response
MaxClock   == 400    \* the monotonic clock stops advancing here
TickStep   == 100    \* granularity of the clock
MaxCalls   == 3      \* async_get_media_files calls per behaviour
MaxActions == 1      \* entity and service actions per behaviour

\* Program constants.
MEDIA_CACHE_TTL == 300

---------------------------------------------------------------------------
\* JSON values.
Null         == [kind |-> "null",     val |-> <<>>]
EmptyMap     == [kind |-> "object",   val |-> <<>>]
EmptyList    == [kind |-> "array",    val |-> <<>>]
Obj(s)       == [kind |-> "object",   val |-> s]
Arr(s)       == [kind |-> "array",    val |-> s]
Envelope(s)  == [kind |-> "envelope", val |-> s]
MissingBody  == [kind |-> "missing",  val |-> <<>>]
TextBody     == [kind |-> "text",     val |-> <<>>]
Missing      == "<missing>"
None         == "None"

\* Python truthiness of a JSON value (`if not data`, `x or {}`, `if last_status`).
Truthy(v) ==
    CASE v.kind = "null"     -> FALSE
      [] v.kind = "missing"  -> FALSE
      [] v.kind = "envelope" -> TRUE
      [] OTHER               -> v.val # <<>>

\* Variant: AnthiasAuthError does not derive from AnthiasApiError.
IsApiError_BaseOnly(exc) == exc = "AnthiasApiError"

\* The exception classes and `except AnthiasApiError`.
IsApiError(exc) == exc \in {"AnthiasApiError", "AnthiasAuthError"}


---------------------------------------------------------------------------
\* Transport Client (api.py).  A response is [status, err, body]: err is
\* "none", "ClientError" (aiohttp.ClientError: connection refused, reset, ...)
\* or "TimeoutError" (ClientTimeout(total=15) expired: asyncio.TimeoutError,
\* which is not an aiohttp.ClientError).
Raise(e)  == [exc |-> e, val |-> Null]
Return(v) == [exc |-> "none", val |-> v]

Response(st, b) == [status |-> st, err |-> "none", body |-> b]
Failure(e)      == [status |-> 0, err |-> e, body |-> Null]

\* `await resp.json()` inside `try ... except aiohttp.ClientError`: a body
\* that is not JSON raises ContentTypeError, which is an aiohttp.ClientError.
Json(body) == IF body.kind = "text" THEN Raise("AnthiasApiError") ELSE Return(body)

\* AnthiasFleetManagerApi._get
Get(resp) ==
    IF resp.err = "TimeoutError" THEN Raise("TimeoutError")
    ELSE IF resp.err = "ClientError" THEN Raise("AnthiasApiError")
    ELSE IF resp.status = 401 THEN Raise("AnthiasAuthError")
    ELSE IF resp.status = 403 THEN Raise("AnthiasAuthError")
    ELSE IF resp.status >= 400 THEN Raise("AnthiasApiError")
    ELSE Json(resp.body)

\* AnthiasFleetManagerApi._post
Post(resp) ==
    IF resp.err = "TimeoutError" THEN Raise("TimeoutError")
    ELSE IF resp.err = "ClientError" THEN Raise("AnthiasApiError")
    ELSE IF resp.status = 401 THEN Raise("AnthiasAuthError")
    ELSE IF resp.status = 403 THEN Raise("AnthiasAuthError")
    ELSE IF resp.status >= 400 THEN Raise("AnthiasApiError")
    ELSE Json(resp.body)

\* AnthiasFleetManagerApi._patch
Patch(resp) ==
    IF resp.err = "TimeoutError" THEN Raise("TimeoutError")
    ELSE IF resp.err = "ClientError" THEN Raise("AnthiasApiError")
    ELSE IF resp.status = 401 THEN Raise("AnthiasAuthError")
    ELSE IF resp.status = 403 THEN Raise("AnthiasAuthError")
    ELSE IF resp.status >= 400 THEN Raise("AnthiasApiError")
    ELSE Json(resp.body)

\* The three request helpers by HTTP verb.
Verbs == {"GET", "POST", "PATCH"}
Send(verb, resp) ==
    CASE verb = "GET"   -> Get(resp)
      [] verb = "POST"  -> Post(resp)
      [] verb = "PATCH" -> Patch(resp)

\* Variant: the envelope is handed on as it is.
Unwrap_Not(d) == d

\* `if isinstance(data, dict) and "results" in data: return data["results"]`
Unwrap(d) == IF d.kind = "envelope" THEN Arr(d.val) ELSE d

\* AnthiasFleetManagerApi.async_get_players
async_get_players(resp) ==
    LET r == Get(resp) IN IF r.exc # "none" THEN r ELSE Return(Unwrap(r.val))

\* AnthiasFleetManagerApi.async_get_player_info
async_get_player_info(resp) == Get(resp)

\* AnthiasFleetManagerApi.async_get_cec_status
async_get_cec_status(resp) == Get(resp)

\* Variant: the body is handed on as received.
async_get_now_playing_Raw(resp) == Get(resp)

\* AnthiasFleetManagerApi.async_get_now_playing
async_get_now_playing(resp) ==
    LET r == Get(resp) IN
    IF r.exc # "none" THEN r
    ELSE IF ~Truthy(r.val) THEN Return(Null) ELSE Return(r.val)

\* Variant: the asset list is handed on as received.
async_get_assets_Raw(resp) == Get(resp)

\* AnthiasFleetManagerApi.async_get_assets
async_get_assets(resp) ==
    LET r == Get(resp) IN IF r.exc # "none" THEN r ELSE Return(Unwrap(r.val))

\* AnthiasFleetManagerApi.async_get_schedule_slots
async_get_schedule_slots(resp) ==
    LET r == Get(resp) IN IF r.exc # "none" THEN r ELSE Return(Unwrap(r.val))

\* AnthiasFleetManagerApi.async_get_schedule_status
async_get_schedule_status(resp) == Get(resp)

\* AnthiasFleetManagerApi.async_get_media_files
api_async_get_media_files(resp) ==
    LET r == Get(resp) IN IF r.exc # "none" THEN r ELSE Return(Unwrap(r.val))

\* The list-returning methods.
ListMethods == {"async_get_players", "async_get_assets", "async_get_schedule_slots",
                "async_get_media_files"}
ListCallOf(m, resp) ==
    CASE m = "async_get_players"        -> async_get_players(resp)
      [] m = "async_get_assets"         -> async_get_assets(resp)
      [] m = "async_get_schedule_slots" -> async_get_schedule_slots(resp)
      [] m = "async_get_media_files"    -> api_async_get_media_files(resp)

\* The body of an answer of POST /api/auth/token/: a mapping with the key
\* `non_field_errors` (a list of messages, or null), a mapping with the key
\* `token`, or any other JSON value or text.
NonFieldErrors(v) == [kind |-> "object", val |-> <<"non_field_errors">>, item |-> v]
TokenBody(t)      == [kind |-> "object", val |-> <<"token">>, item |-> t]
HasKey(d, k)      == d.kind = "object" /\ \E i \in 1..Len(d.val) : d.val[i] = k

TokenRaise(e, m) == [exc |-> e, val |-> "", msg |-> m]
TokenReturn(t)   == [exc |-> "none", val |-> t, msg |-> ""]

\* `data.get("non_field_errors", ["Invalid credentials"])[0]` and the raise
\* that follows it: a body without .get raises AttributeError, null is not
\* subscriptable, an empty list has no element 0.
FirstNonFieldError(d) ==
    IF d.kind \notin {"object", "envelope"} THEN TokenRaise("AttributeError", "")
    ELSE LET l == IF HasKey(d, "non_field_errors") THEN d.item
                  ELSE Arr(<<"Invalid credentials">>)
         IN IF l.kind = "null" THEN TokenRaise("TypeError", "")
            ELSE IF l.val = <<>> THEN TokenRaise("IndexError", "")
            ELSE TokenRaise("AnthiasAuthError", l.val[1])

\* AnthiasFleetManagerApi.async_get_token
async_get_token(resp) ==
    IF resp.err = "TimeoutError" THEN TokenRaise("TimeoutError", "")
    ELSE IF resp.err = "ClientError" THEN TokenRaise("AnthiasApiError", "Cannot connect to FM")
    ELSE IF resp.status = 400
         THEN IF Json(resp.body).exc # "none"
              THEN TokenRaise("AnthiasApiError", "Cannot connect to FM")
              ELSE FirstNonFieldError(resp.body)
    ELSE IF resp.status >= 400 THEN TokenRaise("AnthiasApiError", "Cannot connect to FM")
    ELSE IF Json(resp.body).exc # "none" THEN TokenRaise("AnthiasApiError", "Cannot connect to FM")
    ELSE IF resp.body.kind \notin {"object", "envelope"} THEN TokenRaise("TypeError", "")
    ELSE IF ~HasKey(resp.body, "token") THEN TokenRaise("KeyError", "")
    ELSE TokenReturn(resp.body.item)

\* The five sub-fetches of an online player, in the order the cycle issues them.
Endpoints == <<"info", "cec-status", "now-playing", "schedule-slots", "schedule-status">>
Fields    == <<"info", "cec", "now_playing", "schedule_slots", "schedule_status">>

ApiCall(ep, resp) ==
    CASE ep = "info"            -> async_get_player_info(resp)
      [] ep = "cec-status"      -> async_get_cec_status(resp)
      [] ep = "now-playing"     -> async_get_now_playing(resp)
      [] ep = "schedule-slots"  -> async_get_schedule_slots(resp)
      [] ep = "schedule-status" -> async_get_schedule_status(resp)

---------------------------------------------------------------------------
\* The Fleet Manager as the cycle sees it: what each endpoint may answer.

\* A record of the player list.  An id is an integer or a string in JSON;
\* [type, repr] keeps which, and str() yields repr.
StrId(s) == [type |-> "str", repr |-> s]
IntId(s) == [type |-> "int", repr |-> s]
MissingId == [type |-> "missing", repr |-> ""]
Str(id) == id.repr

LastStatus(p) == Obj(<<"last_status", p>>)

On1  == [id |-> StrId("p1"), name |-> "Lobby", is_online |-> "True",
         last_seen |-> "t1", last_status |-> LastStatus("p1")]
On2  == [id |-> IntId("2"), name |-> Missing, is_online |-> "True",
         last_seen |-> Missing, last_status |-> MissingBody]
Off1 == [id |-> StrId("p1"), name |-> "Lobby", is_online |-> "False",
         last_seen |-> "t0", last_status |-> LastStatus("p1")]
Off2 == [id |-> IntId("2"), name |-> "Hall", is_online |-> Missing,
         last_seen |-> Missing, last_status |-> EmptyMap]
Off3 == [id |-> StrId("p3"), name |-> Missing, is_online |-> "False",
         last_seen |-> "t0", last_status |-> Null]
NoId == [id |-> MissingId, name |-> "Ghost", is_online |-> "True",
         last_seen |-> Missing, last_status |-> MissingBody]

PlayerLists ==
    { l \in { <<>>, <<On1>>, <<Off2>>, <<NoId>>,
              <<On1, On2>>, <<Off1, On2>>, <<On1, Off2>>, <<Off3, Off2>>,
              <<On1, NoId>>, <<Off1, Off2, Off3>> } : Len(l) <= MaxPlayers }

\* Answers to GET /api/players/: a bare array, a paginated envelope, an
\* HTTP error, a network failure, a timeout.
ListResponses ==
    { Response(200, Arr(l)) : l \in PlayerLists }
    \cup { Response(200, Envelope(l)) : l \in PlayerLists }
    \cup { Response(401, Null), Response(403, Null),
           Response(500, Null), Failure("ClientError"), Failure("TimeoutError") }

\* The payload the Fleet Manager serves for endpoint ep of player pid during
\* cycle number v: distinct per endpoint, player and cycle.
Payload(ep, pid, v) == <<ep, pid, ToString(v)>>

PlainResponse(ep, pid, v) ==
    IF ep = "schedule-slots" THEN Response(200, Arr(Payload(ep, pid, v)))
    ELSE Response(200, Obj(Payload(ep, pid, v)))

\* Answers that are not the plain payload: failures of each kind, and
\* successful bodies of another shape.
Deviations(ep, pid, v) ==
    { Response(500, Null), Response(401, Null), Response(403, Null),
      Failure("ClientError"), Failure("TimeoutError") }
    \cup (CASE ep = "info"           -> { Response(200, EmptyMap) }
            [] ep = "now-playing"    -> { Response(200, Null), Response(200, EmptyMap),
                                          Response(200, EmptyList) }
            [] ep = "schedule-slots" -> { Response(200, Envelope(Payload(ep, pid, v))),
                                          Response(200, EmptyList) }
            [] OTHER                 -> {})

---------------------------------------------------------------------------
\* Snapshot Builder: AnthiasCoordinator._async_update_data (coordinator.py).

\* A snapshot is a function from player id to entry.
Put(m, k, e) == [x \in (DOMAIN m) \cup {k} |-> IF x = k THEN e ELSE m[x]]

\* coordinator.data: None until a cycle has returned.
NoData      == [valid |-> FALSE, map |-> <<>>]
Snapshot(m) == [valid |-> TRUE, map |-> m]

\* Variant: the cycle updates the entries of the published mapping.
InitialResult_Reuse(published) == published.map

\* `result: dict = {}`: every cycle starts from a fresh, empty mapping.
InitialResult(published) == <<>>

\* Variant: name and is_online are read without a default.
SeedEntry_NoDefaults(player) ==
    LET pid == Str(player.id)
        last_status == IF Truthy(player.last_status) THEN player.last_status ELSE EmptyMap
    IN [id |-> pid,
        name |-> player.name,
        is_online |-> player.is_online,
        last_seen |-> IF player.last_seen = Missing THEN None ELSE player.last_seen,
        info |-> IF Truthy(last_status) THEN last_status ELSE EmptyMap,
        cec |-> EmptyMap,
        now_playing |-> Null,
        schedule_slots |-> EmptyList,
        schedule_status |-> EmptyMap]

\* The entry seeded from a list record (the dict literal and the last_status
\* default), before any sub-fetch.
SeedEntry(player) ==
    LET pid == Str(player.id)
        last_status == IF Truthy(player.last_status) THEN player.last_status ELSE EmptyMap
    IN [id |-> pid,
        name |-> IF player.name = Missing THEN pid ELSE player.name,
        is_online |-> IF player.is_online = Missing THEN "False" ELSE player.is_online,
        last_seen |-> IF player.last_seen = Missing THEN None ELSE player.last_seen,
        info |-> IF Truthy(last_status) THEN last_status ELSE EmptyMap,
        cec |-> EmptyMap,
        now_playing |-> Null,
        schedule_slots |-> EmptyList,
        schedule_status |-> EmptyMap]

NoEntry == [id |-> "", name |-> "", is_online |-> "False", last_seen |-> None,
            info |-> EmptyMap, cec |-> EmptyMap, now_playing |-> Null,
            schedule_slots |-> EmptyList, schedule_status |-> EmptyMap]

\* Variant: the sub-fetches are not gated on the online flag.
IsOnline_Always(e) == TRUE

\* `if entry["is_online"]:`
IsOnline(e) == e.is_online = "True"

\* Variant: the `except AnthiasApiError` clause is missing.
MapListError_Uncaught(exc) ==
    IF exc = "AnthiasAuthError" THEN "ConfigEntryAuthFailed" ELSE exc

\* Variant: `except AnthiasApiError` comes first and also takes the subclass.
MapListError_BaseFirst(exc) ==
    IF IsApiError(exc) THEN "UpdateFailed" ELSE exc

\* The except clauses around the player-list fetch: the class of the
\* exception that leaves _async_update_data.
MapListError(exc) ==
    IF exc = "AnthiasAuthError" THEN "ConfigEntryAuthFailed"
    ELSE IF IsApiError(exc) THEN "UpdateFailed"
    ELSE exc

\* Variant: an empty live info does not replace the info seeded from
\* last_status.
TrySubFetch_KeepSeed(e, k, r) ==
    IF r.exc = "none"
    THEN [exc |-> "none",
          entry |-> IF Fields[k] = "info" /\ ~Truthy(r.val) THEN e
                    ELSE [e EXCEPT ![Fields[k]] = r.val]]
    ELSE IF IsApiError(r.exc) THEN [exc |-> "none", entry |-> e]
    ELSE [exc |-> r.exc, entry |-> e]

\* One `try: x = await api...; entry[f] = x  except AnthiasApiError: log`
\* block, for sub-fetch number k with api outcome r.
TrySubFetch(e, k, r) ==
    IF r.exc = "none" THEN [exc |-> "none", entry |-> [e EXCEPT ![Fields[k]] = r.val]]
    ELSE IF IsApiError(r.exc) THEN [exc |-> "none", entry |-> e]
    ELSE [exc |-> r.exc, entry |-> e]

\* The for loop from record i on, up to its next suspension: the first
\* sub-fetch of the next online record, the return, or an exception.
RECURSIVE Advance(_, _, _)
Advance(ps, i, res) ==
    IF i > Len(ps) THEN [kind |-> "return", idx |-> i, entry |-> NoEntry, result |-> res, exc |-> "none"]
    ELSE IF ps[i].id = MissingId
         THEN [kind |-> "raise", idx |-> i, entry |-> NoEntry, result |-> res, exc |-> "KeyError"]
    ELSE LET e == SeedEntry(ps[i]) IN
         IF IsOnline(e)
         THEN [kind |-> "await", idx |-> i, entry |-> e, result |-> res, exc |-> "none"]
         ELSE Advance(ps, i + 1, Put(res, e.id, e))

\* `for player in players` over the value async_get_players returned.
StartLoop(body, published) ==
    IF body.kind # "array"
    THEN [kind |-> "raise", idx |-> 0, entry |-> NoEntry, result |-> <<>>, exc |-> "TypeError"]
    ELSE Advance(body.val, 1, InitialResult(published))

---------------------------------------------------------------------------
\* Poll Scheduler / Publisher: DataUpdateCoordinator._async_refresh, the
\* base class of AnthiasCoordinator.

\* `self.data = await self._async_update_data()` returned.
RefreshSucceeded(snapshot) ==
    /\ data' = Snapshot(snapshot)
    /\ last_update_success' = TRUE
    /\ last_exception' = "none"

\* Variant: a failed refresh leaves the flag as it was.
RefreshFailed_KeepFlag(exc) ==
    /\ data' = data
    /\ last_update_success' = last_update_success
    /\ last_exception' = exc

\* _async_update_data raised: the exception is recorded, the flag cleared,
\* self.data is not assigned.
RefreshFailed(exc) ==
    /\ data' = data
    /\ last_update_success' = FALSE
    /\ last_exception' = exc

---------------------------------------------------------------------------
\* Two further coordinators run _async_update_data next to the one above.
\* Their Fleet Manager serves the same player records and the same sub-fetch
\* answers, but always sends the list in one wire form: twin["array"] gets
\* the bare array, twin["envelope"] the paginated {"results": [...]} mapping.
Forms == {"array", "envelope"}

InForm(form, resp) ==
    IF resp.err = "none" /\ resp.body.kind \in Forms
    THEN Response(resp.status, [kind |-> form, val |-> resp.body.val])
    ELSE resp

NewTwin == [pc |-> "idle", players |-> <<>>, idx |-> 0, step |-> 0, entry |-> NoEntry,
            result |-> <<>>, data |-> NoData, last_update_success |-> TRUE,
            last_exception |-> "none"]

\* The loop reaches its next suspension, returns or raises (as Continue and
\* Abort below, on the twin's own state).
TwinSettle(t, a) ==
    CASE a.kind = "await" ->
            [t EXCEPT !.pc = "sub", !.idx = a.idx, !.step = 1, !.entry = a.entry,
                      !.result = a.result]
      [] a.kind = "return" ->
            [t EXCEPT !.pc = "idle", !.idx = 0, !.step = 0, !.entry = NoEntry,
                      !.result = <<>>, !.data = Snapshot(a.result),
                      !.last_update_success = TRUE, !.last_exception = "none"]
      [] a.kind = "raise" ->
            [t EXCEPT !.pc = "idle", !.idx = 0, !.step = 0, !.entry = NoEntry,
                      !.result = <<>>,
                      !.last_update_success = FALSE, !.last_exception = a.exc]

TwinRaise(exc) == [kind |-> "raise", idx |-> 0, entry |-> NoEntry, result |-> <<>>, exc |-> exc]

\* The player-list call of a twin completes with resp.
TwinList(t, resp) ==
    IF t.pc # "list" THEN t
    ELSE LET r == async_get_players(resp) IN
         IF r.exc # "none" THEN TwinSettle(t, TwinRaise(MapListError(r.exc)))
         ELSE TwinSettle([t EXCEPT !.players = IF r.val.kind = "array" THEN r.val.val ELSE <<>>],
                         StartLoop(r.val, t.data))

\* The sub-fetch a twin is suspended at completes with resp.
TwinSub(t, resp) ==
    IF t.pc # "sub" THEN t
    ELSE LET r == ApiCall(Endpoints[t.step], resp)
             x == TrySubFetch(t.entry, t.step, r)
         IN IF x.exc # "none" THEN TwinSettle(t, TwinRaise(x.exc))
            ELSE IF t.step < Len(Endpoints)
            THEN [t EXCEPT !.step = t.step + 1, !.entry = x.entry]
            ELSE TwinSettle(t, Advance(t.players, t.idx + 1, Put(t.result, t.entry.id, x.entry)))

---------------------------------------------------------------------------
\* The refresh cycle, one action per suspension point.

\* The request log: endpoint, player, what the server answered (the HTTP
\* status or the transport failure, and for a sub-fetch the body), whether
\* that was the plain payload, and how the api method ended ("ok" or the
\* exception class).
Req(ep, pid) == [ep |-> ep, pid |-> pid, answer |-> "pending", body |-> Null,
                 plain |-> TRUE, out |-> "pending"]
AnswerOf(resp) == IF resp.err # "none" THEN resp.err ELSE ToString(resp.status)
Outcome(r) == IF r.exc = "none" THEN "ok" ELSE r.exc
Answered(resp, plain, r) ==
    [log EXCEPT ![Len(log)] = [@ EXCEPT !.answer = AnswerOf(resp),
                                        !.body = IF log[Len(log)].ep = "players" THEN Null
                                                  ELSE resp.body,
                                        !.plain = plain,
                                        !.out = Outcome(r)]]

Abort(exc, lg) ==
    /\ pc' = "idle"
    /\ inflight' = inflight - 1
    /\ idx' = 0 /\ step' = 0 /\ entry' = NoEntry /\ result' = <<>>
    /\ log' = lg
    /\ RefreshFailed(exc)
    /\ UNCHANGED served

Continue(a, ps, lg) ==
    CASE a.kind = "await" ->
            /\ pc' = "sub"
            /\ idx' = a.idx /\ step' = 1 /\ entry' = a.entry /\ result' = a.result
            /\ log' = Append(lg, Req(Endpoints[1], a.entry.id))
            /\ UNCHANGED <<data, last_update_success, last_exception, served, inflight>>
      [] a.kind = "return" ->
            /\ pc' = "idle"
            /\ inflight' = inflight - 1
            /\ idx' = 0 /\ step' = 0 /\ entry' = NoEntry /\ result' = <<>>
            /\ log' = lg
            /\ RefreshSucceeded(a.result)
            /\ served' = [list |-> ps, ver |-> cycles,
                          dropped |-> (DOMAIN data.map) \ (DOMAIN a.result) # {}]
      [] a.kind = "raise" -> Abort(a.exc, lg)

\* _async_refresh calls _async_update_data, which issues GET /api/players/.
BeginCycle ==
    /\ pc' = "list"
    /\ cycles' = cycles + 1
    /\ inflight' = inflight + 1
    /\ log' = <<Req("players", "")>>
    /\ twin' = [f \in Forms |-> [twin[f] EXCEPT !.pc = "list"]]
    /\ UNCHANGED <<players, idx, step, entry, result, faults, data,
                   last_update_success, last_exception, served>>

\* The periodic timer fires.  It is armed when a refresh ends and cancelled
\* when one starts, so it fires only while no cycle is running.
StartCycle ==
    /\ pc = "idle"
    /\ cycles < MaxCycles
    /\ BeginCycle
    /\ UNCHANGED <<mediaVars, clientVars, actionVars, entryVars>>

\* The player-list call completes.
ListResponse ==
    /\ pc = "list"
    /\ \E resp \in ListResponses :
         LET r == async_get_players(resp) IN
         /\ IF r.exc # "none"
            THEN /\ players' = players
                 /\ Abort(MapListError(r.exc), Answered(resp, TRUE, r))
            ELSE /\ players' = IF r.val.kind = "array" THEN r.val.val ELSE <<>>
                 /\ Continue(StartLoop(r.val, data), players', Answered(resp, TRUE, r))
         /\ twin' = [f \in Forms |-> TwinList(twin[f], InForm(f, resp))]
    /\ UNCHANGED <<cycles, faults>>
    /\ UNCHANGED <<mediaVars, clientVars, actionVars, entryVars>>

\* A sub-fetch of the current online player completes.
SubResponse ==
    /\ pc = "sub"
    /\ \E resp \in {PlainResponse(Endpoints[step], entry.id, cycles)}
                   \cup (IF faults < MaxFaults
                         THEN Deviations(Endpoints[step], entry.id, cycles) ELSE {}) :
         LET r     == ApiCall(Endpoints[step], resp)
             t     == TrySubFetch(entry, step, r)
             plain == resp = PlainResponse(Endpoints[step], entry.id, cycles)
             lg    == Answered(resp, plain, r)
         IN /\ faults' = IF plain THEN faults ELSE faults + 1
            /\ twin' = [f \in Forms |-> TwinSub(twin[f], resp)]
            /\ IF t.exc # "none" THEN Abort(t.exc, lg)
               ELSE IF step < Len(Endpoints)
               THEN /\ pc' = "sub"
                    /\ step' = step + 1
                    /\ entry' = t.entry
                    /\ log' = Append(lg, Req(Endpoints[step + 1], entry.id))
                    /\ UNCHANGED <<idx, result, data, last_update_success,
                                   last_exception, served, inflight>>
               ELSE Continue(Advance(players, idx + 1, Put(result, entry.id, t.entry)),
                             players, lg)
    /\ UNCHANGED <<players, cycles>>
    /\ UNCHANGED <<mediaVars, clientVars, actionVars, entryVars>>

---------------------------------------------------------------------------
\* Content Cache: AnthiasCoordinator.async_get_media_files (coordinator.py).

Callers == {1, 2}

\* Answers to GET /api/media/.
MediaResponses ==
    { Response(200, Arr(<<"m1">>)), Response(200, Envelope(<<"m2">>)),
      Response(200, EmptyList), Response(500, Null), Response(401, Null),
      Failure("ClientError"), Failure("TimeoutError") }

\* Variant: the comparison is the wrong way round.
CacheHit_Flipped(now, ts, cache) == now - ts > MEDIA_CACHE_TTL /\ Truthy(cache)

\* Variant: the cache is not tested for being non-empty.
CacheHit_AnyCache(now, ts, cache) == now - ts < MEDIA_CACHE_TTL

\* `now - self._media_cache_ts < MEDIA_CACHE_TTL and self._media_cache`
CacheHit(now, ts, cache) == now - ts < MEDIA_CACHE_TTL /\ Truthy(cache)

NoCall == [pc |-> "idle", now |-> 0, solo |-> TRUE]
InFlight == {c \in Callers : call[c].pc = "fetching"}

\* What is remembered of a completed call: when it started, the number of
\* requests it sent, what the server answered, how the call ended (out:
\* "hit", "fetched" or "raised", with the exception class and the value
\* returned), and whether another call overlapped it.
Summary(start, net, answer, e, solo) ==
    [start |-> start, net |-> net, answer |-> answer, out |-> e.out, exc |-> e.exc,
     ret |-> e.ret, solo |-> solo]
NoSummary == [start |-> 0, net |-> 0, answer |-> "none", out |-> "nocall", exc |-> "none",
              ret |-> Null, solo |-> TRUE]

\* `return self._media_cache` on the fresh path: nothing is written.
ServedFromCache(cache, ts) ==
    [cache |-> cache, ts |-> ts, out |-> "hit", exc |-> "none", ret |-> cache]

\* Variant: an empty fetch result does not replace the cache.
FetchSucceeded_KeepOnEmpty(cache, ts, now, files) ==
    IF Truthy(files)
    THEN [cache |-> files, ts |-> now, out |-> "fetched", exc |-> "none", ret |-> files]
    ELSE [cache |-> cache, ts |-> ts, out |-> "fetched", exc |-> "none", ret |-> files]

\* Variant: the timestamp is taken when the fetch completes.
FetchSucceeded_StampAtEnd(cache, ts, now, files) ==
    [cache |-> files, ts |-> clock, out |-> "fetched", exc |-> "none", ret |-> files]

\* The await returned: `self._media_cache = ...; self._media_cache_ts = now;
\* return self._media_cache`.
FetchSucceeded(cache, ts, now, files) ==
    [cache |-> files, ts |-> now, out |-> "fetched", exc |-> "none", ret |-> files]

\* Variant: the timestamp is written before the await.
FetchFailed_StampFirst(cache, ts, now, exc) ==
    [cache |-> cache, ts |-> now, out |-> "raised", exc |-> exc, ret |-> Null]

\* The await raised: there is no except clause, neither assignment runs and
\* the exception leaves the method.
FetchFailed(cache, ts, now, exc) ==
    [cache |-> cache, ts |-> ts, out |-> "raised", exc |-> exc, ret |-> Null]

Completed(sm) == [n |-> lastDone.n + 1, last |-> sm, prev |-> lastDone.last]

\* Another call starts while these are in flight: they are no longer alone.
Overlapped(cs) == [c \in Callers |-> IF c \in cs THEN [call[c] EXCEPT !.solo = FALSE] ELSE call[c]]

\* time.monotonic() advances.
Tick ==
    /\ clock + TickStep <= MaxClock
    /\ clock' = clock + TickStep
    /\ UNCHANGED <<media_cache, media_cache_ts, call, lastDone>>
    /\ UNCHANGED <<cycleVars, clientVars, actionVars, entryVars>>

\* A caller enters async_get_media_files: the cached sequence is returned
\* at once, or GET /api/media/ is issued and the call suspends.
MediaCall(c) ==
    /\ call[c].pc = "idle"
    /\ lastDone.n + Cardinality(InFlight) < MaxCalls
    /\ LET now == clock IN
       IF CacheHit(now, media_cache_ts, media_cache)
       THEN LET e == ServedFromCache(media_cache, media_cache_ts) IN
            /\ media_cache' = e.cache
            /\ media_cache_ts' = e.ts
            /\ lastDone' = Completed(Summary(now, 0, "none", e, InFlight = {}))
            /\ call' = Overlapped(InFlight)
       ELSE /\ call' = [Overlapped(InFlight) EXCEPT ![c] =
                            [pc |-> "fetching", now |-> now, solo |-> InFlight = {}]]
            /\ UNCHANGED <<lastDone, media_cache, media_cache_ts>>
    /\ UNCHANGED clock
    /\ UNCHANGED <<cycleVars, clientVars, actionVars, entryVars>>

\* The fetch of a suspended call completes: the cache and the timestamp are
\* assigned after the await, or the exception leaves the method.
MediaResponse(c) ==
    /\ call[c].pc = "fetching"
    /\ \E resp \in MediaResponses :
         LET r == api_async_get_media_files(resp)
             e == IF r.exc = "none"
                  THEN FetchSucceeded(media_cache, media_cache_ts, call[c].now, r.val)
                  ELSE FetchFailed(media_cache, media_cache_ts, call[c].now, r.exc)
         IN /\ media_cache' = e.cache
            /\ media_cache_ts' = e.ts
            /\ lastDone' = Completed(Summary(call[c].now, 1, AnswerOf(resp), e, call[c].solo))
    /\ call' = [call EXCEPT ![c] = NoCall]
    /\ UNCHANGED clock
    /\ UNCHANGED <<cycleVars, clientVars, actionVars, entryVars>>

---------------------------------------------------------------------------
\* The Transport Client called on its own: one action per call, the response
\* drawn from what a server or the network can produce.

Statuses == {200, 201, 400, 401, 403, 404, 500}
Bodies   == {Null, EmptyMap, Obj(<<"detail">>), Arr(<<"a", "b">>), TextBody}

WireResponses ==
    { Response(st, b) : st \in Statuses, b \in Bodies }
    \cup { Failure("ClientError"), Failure("TimeoutError") }

\* Answers of a list endpoint: the items bare or in an envelope, a mapping
\* without `results`, error statuses and failures.
Items == { <<>>, <<"a">>, <<"a", "b">>, <<"b", "a">> }
ListBodies ==
    { Response(200, Arr(l)) : l \in Items }
    \cup { Response(200, Envelope(l)) : l \in Items }
    \cup { Response(200, Obj(<<"detail">>)), Response(401, Null), Response(500, Null),
           Failure("ClientError"), Failure("TimeoutError") }

\* Answers of POST /api/auth/token/.
TokenBodies ==
    { NonFieldErrors(Arr(<<"Unable to log in with provided credentials.">>)),
      NonFieldErrors(Arr(<<"first", "second">>)),
      NonFieldErrors(EmptyList),
      NonFieldErrors(Null),
      TokenBody("t0k3n"),
      Obj(<<"username">>), EmptyMap, Arr(<<"a">>), Null, TextBody }
TokenResponses ==
    { Response(st, b) : st \in {200, 400, 401, 500}, b \in TokenBodies }
    \cup { Failure("ClientError"), Failure("TimeoutError") }

NoClientCall == [fn |-> "none", resp |-> Failure("none"), out |-> Raise("none")]

\* _get, _post or _patch is called and the response arrives.
ClientRequest(verb) ==
    /\ \E resp \in WireResponses :
         client' = [fn |-> verb, resp |-> resp, out |-> Send(verb, resp)]
    /\ UNCHANGED <<cycleVars, mediaVars, actionVars, entryVars>>

\* A list-returning method is called and the response arrives.
ListCall(m) ==
    /\ \E resp \in ListBodies :
         client' = [fn |-> m, resp |-> resp, out |-> ListCallOf(m, resp)]
    /\ UNCHANGED <<cycleVars, mediaVars, actionVars, entryVars>>

\* async_get_token is called and the response arrives.
TokenCall ==
    /\ \E resp \in TokenResponses :
         client' = [fn |-> "async_get_token", resp |-> resp, out |-> async_get_token(resp)]
    /\ UNCHANGED <<cycleVars, mediaVars, actionVars, entryVars>>

---------------------------------------------------------------------------
\* Actions of entities (button.py, switch.py, media_player.py) and services
\* (services.py): each calls one api method and awaits it.

Button(key, m)      == [name |-> key, kind |-> "button", method |-> m, verb |-> "POST"]
Switch(fn, m)       == [name |-> fn, kind |-> "switch", method |-> m, verb |-> "POST"]
MediaPlayer(fn, m)  == [name |-> fn, kind |-> "media_player", method |-> m, verb |-> "POST"]
Service(sv, m, vb)  == [name |-> sv, kind |-> "service", method |-> m, verb |-> vb]

EntryPoints ==
    { Button("reboot", "async_reboot"),
      Button("shutdown", "async_shutdown"),
      Switch("async_turn_on", "async_cec_wake"),
      Switch("async_turn_off", "async_cec_standby"),
      MediaPlayer("async_media_next_track", "async_playback_control"),
      MediaPlayer("async_media_previous_track", "async_playback_control"),
      MediaPlayer("async_turn_on", "async_cec_wake"),
      MediaPlayer("async_turn_off", "async_cec_standby"),
      Service("deploy_content", "async_deploy_content", "POST"),
      Service("create_asset", "async_create_asset", "POST"),
      Service("delete_asset", "async_delete_asset", "POST"),
      Service("toggle_asset", "async_update_asset", "PATCH"),
      Service("create_schedule_slot", "async_create_schedule_slot", "POST"),
      Service("delete_schedule_slot", "async_delete_schedule_slot", "POST"),
      Service("add_slot_item", "async_add_slot_item", "POST"),
      Service("remove_slot_item", "async_remove_slot_item", "POST"),
      Service("trigger_update", "async_trigger_update", "POST") }

\* Answers to the request of an action.
ActionResponses ==
    { Response(200, EmptyMap), Response(401, Null), Response(500, Null),
      Failure("ClientError"), Failure("TimeoutError") }

\* Variant: the refresh is requested whether or not the call failed.
HandleGuarded_RefreshAlways(r) ==
    IF r.exc = "none" THEN [raised |-> "none", refresh |-> TRUE]
    ELSE IF IsApiError(r.exc) THEN [raised |-> "none", refresh |-> TRUE]
    ELSE [raised |-> r.exc, refresh |-> FALSE]

\* Variant: the except clause logs and raises again.
HandleGuarded_Reraise(r) ==
    IF r.exc = "none" THEN [raised |-> "none", refresh |-> TRUE]
    ELSE [raised |-> r.exc, refresh |-> FALSE]

\* `try: await api...  except AnthiasApiError: log; return` and then
\* `await self.coordinator.async_request_refresh()` (switch, media player):
\* the exception that leaves the handler and whether a refresh is requested.
HandleGuarded(r) ==
    IF r.exc = "none" THEN [raised |-> "none", refresh |-> TRUE]
    ELSE IF IsApiError(r.exc) THEN [raised |-> "none", refresh |-> FALSE]
    ELSE [raised |-> r.exc, refresh |-> FALSE]

\* Variant: the handler catches the client's errors.
HandleBare_Swallow(r) ==
    [raised |-> IF IsApiError(r.exc) THEN "none" ELSE r.exc, refresh |-> FALSE]

\* `await fn(...)` and nothing else (button, services).
HandleBare(r) == [raised |-> r.exc, refresh |-> FALSE]

Handle(e, r) ==
    IF e.kind \in {"switch", "media_player"} THEN HandleGuarded(r) ELSE HandleBare(r)

NoAct    == [pc |-> "idle", ep |-> Button("", "")]
NoAction == [name |-> "", kind |-> "", answer |-> "none", out |-> "none",
             raised |-> "none", refresh |-> "none"]

\* DataUpdateCoordinator.async_request_refresh: starts a refresh unless one
\* is running; a request made while one is running is absorbed by it.
async_request_refresh ==
    IF pc = "idle" THEN cycles < MaxCycles /\ BeginCycle
    ELSE UNCHANGED cycleVars

\* DataUpdateCoordinator.async_refresh: runs a refresh at once, whatever
\* else is running.
async_refresh ==
    IF pc = "idle" THEN cycles < MaxCycles /\ BeginCycle
    ELSE /\ inflight' = inflight + 1
         /\ UNCHANGED <<pc, players, idx, step, entry, result, log, cycles, faults,
                        data, last_update_success, last_exception, served, twin>>

\* Variant: the handlers await coordinator.async_refresh().
CoordinatorRefresh_Direct == async_refresh

\* `await self.coordinator.async_request_refresh()`
CoordinatorRefresh == async_request_refresh

\* An entity's handler or a service handler is entered and issues its
\* request.  Entities exist once a snapshot with a player is published;
\* services are registered once a coordinator is.
ActionCall(e) ==
    /\ act.pc = "idle"
    /\ actions < MaxActions
    /\ data.valid
    /\ e.kind # "service" => DOMAIN data.map # {}
    /\ act' = [pc |-> "calling", ep |-> e]
    /\ actions' = actions + 1
    /\ done' = NoAction
    /\ UNCHANGED <<cycleVars, mediaVars, clientVars, entryVars>>

\* The request of the action completes and the handler runs to its end.
ActionResponse ==
    /\ act.pc = "calling"
    /\ \E resp \in ActionResponses :
         LET r == Send(act.ep.verb, resp)
             h == Handle(act.ep, r)
         IN /\ done' = [name |-> act.ep.name, kind |-> act.ep.kind,
                        answer |-> AnswerOf(resp), out |-> Outcome(r),
                        raised |-> h.raised,
                        refresh |-> IF ~h.refresh THEN "none"
                                    ELSE IF pc = "idle" THEN "started" ELSE "coalesced"]
            /\ IF h.refresh THEN CoordinatorRefresh ELSE UNCHANGED cycleVars
    /\ act' = NoAct
    /\ UNCHANGED actions
    /\ UNCHANGED <<mediaVars, clientVars, entryVars>>

---------------------------------------------------------------------------
\* Config entries (__init__.py), the platforms' entities and the services'
\* choice of a coordinator (services.py).  Each entry has its own Fleet
\* Manager and its own coordinator; a refresh of such a coordinator is one
\* step here, _async_update_data run from the list fetch to its end.

EntryIds == {"e1", "e2"}

\* What the Fleet Manager of an entry serves during one refresh: the answer
\* to the list request and the players whose CEC status says
\* "cec_available": true.
Fleet(resp, cec) == [resp |-> resp, cec |-> cec]
Fleets ==
    { Fleet(Response(200, Arr(<<On1>>)), {"p1"}),
      Fleet(Response(200, Arr(<<On1, On2>>)), {"2"}),
      Fleet(Response(200, Arr(<<Off1>>)), {}),
      Fleet(Response(500, Null), {}) }

SubAnswer(fleet, ep, pid) ==
    IF ep = "cec-status"
    THEN Response(200, IF pid \in fleet.cec THEN Obj(<<"cec_available", "tv_on">>)
                       ELSE Obj(<<"tv_on">>))
    ELSE PlainResponse(ep, pid, 0)

\* The five try blocks of one online record, from sub-fetch k on.
RECURSIVE FetchAll(_, _, _)
FetchAll(e, k, fleet) ==
    IF k > Len(Endpoints) THEN [exc |-> "none", entry |-> e]
    ELSE LET t == TrySubFetch(e, k, ApiCall(Endpoints[k], SubAnswer(fleet, Endpoints[k], e.id)))
         IN IF t.exc # "none" THEN t ELSE FetchAll(t.entry, k + 1, fleet)

\* The for loop run to its end from the suspension a.
RECURSIVE RunLoop(_, _, _)
RunLoop(a, ps, fleet) ==
    IF a.kind # "await" THEN a
    ELSE LET t == FetchAll(a.entry, 1, fleet) IN
         IF t.exc # "none" THEN [a EXCEPT !.kind = "raise", !.exc = t.exc]
         ELSE RunLoop(Advance(ps, a.idx + 1, Put(a.result, a.entry.id, t.entry)), ps, fleet)

\* AnthiasCoordinator._async_update_data as a whole: what it returns or
\* raises against a Fleet Manager that serves `fleet`.
UpdateData(fleet, published) ==
    LET r == async_get_players(fleet.resp) IN
    IF r.exc # "none"
    THEN [kind |-> "raise", idx |-> 0, entry |-> NoEntry, result |-> <<>>,
          exc |-> MapListError(r.exc)]
    ELSE RunLoop(StartLoop(r.val, published), r.val.val, fleet)

\* A coordinator after __init__, and after a refresh that ended as a.
NewCoordinator == [data |-> NoData, last_update_success |-> TRUE]
Refreshed(c, a) ==
    IF a.kind = "return" THEN [data |-> Snapshot(a.result), last_update_success |-> TRUE]
    ELSE [c EXCEPT !.last_update_success = FALSE]

\* `cec.get("cec_available")`; the key is in the body when its value is true.
CecAvailable(cec) == HasKey(cec, "cec_available")

SENSOR_DESCRIPTIONS == {"cpu_temp", "cpu_usage", "memory_usage", "disk_free", "uptime",
                        "ip_address", "mac_address"}
SCHEDULE_SENSOR_DESCRIPTIONS == {"active_schedule_slot", "schedule_slot_count"}
BUTTON_DESCRIPTIONS == {"reboot", "shutdown"}

Entity(platform, pid, key) == [platform |-> platform, pid |-> pid, key |-> key]

\* async_setup_entry of each platform: the entities it adds for the
\* coordinator's data.
binary_sensor_setup(d) == {Entity("binary_sensor", pid, "online") : pid \in DOMAIN d.map}
button_setup(d) ==
    {Entity("button", pid, key) : pid \in DOMAIN d.map, key \in BUTTON_DESCRIPTIONS}
camera_setup(d) == {Entity("camera", pid, "screenshot") : pid \in DOMAIN d.map}
media_player_setup(d) == {Entity("media_player", pid, "player") : pid \in DOMAIN d.map}
sensor_setup(d) ==
    {Entity("sensor", pid, key) :
        pid \in DOMAIN d.map, key \in SENSOR_DESCRIPTIONS \cup SCHEDULE_SENSOR_DESCRIPTIONS}

\* Variant: a switch is added for every player.
switch_setup_All(d) == {Entity("switch", pid, "display") : pid \in DOMAIN d.map}

switch_setup(d) ==
    {Entity("switch", pid, "display") :
        pid \in {p \in DOMAIN d.map : CecAvailable(d.map[p].cec)}}

\* hass.config_entries.async_forward_entry_setups(entry, PLATFORMS)
PlatformSetups(d) ==
    binary_sensor_setup(d) \cup button_setup(d) \cup camera_setup(d)
    \cup media_player_setup(d) \cup sensor_setup(d) \cup switch_setup(d)

\* Variant: the entity is unavailable while its player is offline.
AvailableByKey_Online(c, pid) ==
    /\ c.last_update_success
    /\ pid \in DOMAIN c.data.map
    /\ c.data.map[pid].is_online = "True"

\* `available` of the online binary sensor and of the media player.
AvailableByKey(c, pid) == c.last_update_success /\ pid \in DOMAIN c.data.map

\* `available` of the sensors, the buttons and the camera.
AvailableOnline(c, pid) ==
    IF ~c.last_update_success THEN FALSE
    ELSE /\ pid \in DOMAIN c.data.map
         /\ c.data.map[pid].is_online = "True"

\* `available` of the CEC switch.
AvailableSwitch(c, pid) ==
    IF ~c.last_update_success THEN FALSE
    ELSE IF pid \notin DOMAIN c.data.map THEN FALSE
    ELSE c.data.map[pid].is_online = "True" /\ CecAvailable(c.data.map[pid].cec)

Available(ent, c) ==
    CASE ent.platform \in {"binary_sensor", "media_player"} -> AvailableByKey(c, ent.pid)
      [] ent.platform = "switch" -> AvailableSwitch(c, ent.pid)
      [] OTHER -> AvailableOnline(c, ent.pid)

\* hass.data[DOMAIN] as the sequence of its keys: a dict keeps insertion
\* order, assigning to a key it has keeps the key's place.
RegistryPut(reg, e) ==
    IF \E i \in 1..Len(reg) : reg[i] = e THEN reg ELSE Append(reg, e)
RegistryPop(reg, e) == SelectSeq(reg, LAMBDA x : x # e)

\* Variant: the coordinator inserted last is taken.
get_coordinator_Last(reg) ==
    IF reg = <<>> THEN [exc |-> "ValueError", coordinator |-> "none"]
    ELSE [exc |-> "none", coordinator |-> reg[Len(reg)]]

\* services._get_coordinator
get_coordinator(reg) ==
    IF reg = <<>> THEN [exc |-> "ValueError", coordinator |-> "none"]
    ELSE [exc |-> "none", coordinator |-> Head(reg)]

ServiceNames == {e \in EntryPoints : e.kind = "service"}
PlayerIds == {"p1", "2"}
ServiceResponses == { Response(200, EmptyMap) }
NoSvc == [name |-> "", player_id |-> "", target |-> "none", answer |-> "none",
          raised |-> "none"]

\* async_setup_entry is entered: the coordinator is built and its first
\* refresh awaited.
SetupBegin(e) ==
    /\ setup[e] = "not_loaded"
    /\ setup' = [setup EXCEPT ![e] = "first_refresh"]
    /\ coord' = [coord EXCEPT ![e] = NewCoordinator]
    /\ first' = [first EXCEPT ![e] = NoData]
    /\ svc' = NoSvc
    /\ UNCHANGED <<registry, services, entities>>
    /\ UNCHANGED <<cycleVars, mediaVars, clientVars, actionVars>>

\* async_config_entry_first_refresh ends.  When the refresh failed it
\* raises, the setup is over and the coordinator is dropped; when it
\* returned, the coordinator is put into hass.data[DOMAIN] and the platform
\* setups are awaited.
FirstRefresh(e) ==
    /\ setup[e] = "first_refresh"
    /\ \E fleet \in Fleets :
         LET a == UpdateData(fleet, coord[e].data) IN
         IF a.kind = "return"
         THEN /\ coord' = [coord EXCEPT ![e] = Refreshed(coord[e], a)]
              /\ first' = [first EXCEPT ![e] = Snapshot(a.result)]
              /\ registry' = RegistryPut(registry, e)
              /\ setup' = [setup EXCEPT ![e] = "forwarding"]
         ELSE /\ coord' = [coord EXCEPT ![e] = NewCoordinator]
              /\ setup' = [setup EXCEPT ![e] = "not_loaded"]
              /\ UNCHANGED <<first, registry>>
    /\ svc' = NoSvc
    /\ UNCHANGED <<services, entities>>
    /\ UNCHANGED <<cycleVars, mediaVars, clientVars, actionVars>>

\* async_forward_entry_setups returns, the platforms having added their
\* entities, and `if len(hass.data[DOMAIN]) == 1: await
\* async_setup_services(hass)` runs.
PlatformsSetUp(e) ==
    /\ setup[e] = "forwarding"
    /\ entities' = [entities EXCEPT ![e] = PlatformSetups(coord[e].data)]
    /\ services' = IF Len(registry) = 1 THEN TRUE ELSE services
    /\ setup' = [setup EXCEPT ![e] = "loaded"]
    /\ svc' = NoSvc
    /\ UNCHANGED <<registry, coord, first>>
    /\ UNCHANGED <<cycleVars, mediaVars, clientVars, actionVars>>

\* The periodic refresh of a loaded entry's coordinator.
Refresh(e) ==
    /\ setup[e] = "loaded"
    /\ \E fleet \in Fleets :
         coord' = [coord EXCEPT ![e] = Refreshed(coord[e], UpdateData(fleet, coord[e].data))]
    /\ svc' = NoSvc
    /\ UNCHANGED <<setup, registry, services, first, entities>>
    /\ UNCHANGED <<cycleVars, mediaVars, clientVars, actionVars>>

\* async_unload_entry is entered and awaits async_unload_platforms.
UnloadBegin(e) ==
    /\ setup[e] = "loaded"
    /\ setup' = [setup EXCEPT ![e] = "unloading"]
    /\ svc' = NoSvc
    /\ UNCHANGED <<registry, services, coord, first, entities>>
    /\ UNCHANGED <<cycleVars, mediaVars, clientVars, actionVars>>

\* async_unload_platforms returns unload_ok.  When it is true the
\* platforms have removed the entities, the coordinator is popped and, the
\* registry being empty, the services are removed; when it is false the
\* entry stays as it was.
PlatformsUnloaded(e) ==
    /\ setup[e] = "unloading"
    /\ \E unload_ok \in BOOLEAN :
         IF unload_ok
         THEN /\ entities' = [entities EXCEPT ![e] = {}]
              /\ registry' = RegistryPop(registry, e)
              /\ services' = IF registry' = <<>> THEN FALSE ELSE services
              /\ coord' = [coord EXCEPT ![e] = NewCoordinator]
              /\ first' = [first EXCEPT ![e] = NoData]
              /\ setup' = [setup EXCEPT ![e] = "not_loaded"]
         ELSE /\ setup' = [setup EXCEPT ![e] = "loaded"]
              /\ UNCHANGED <<entities, registry, services, coord, first>>
    /\ svc' = NoSvc
    /\ UNCHANGED <<cycleVars, mediaVars, clientVars, actionVars>>

\* A registered service is called: the handler takes its coordinator with
\* _get_coordinator and awaits one api method.
ServiceCall(sv, player_id) ==
    /\ services
    /\ LET c == get_coordinator(registry) IN
       IF c.exc # "none"
       THEN svc' = [name |-> sv.name, player_id |-> player_id, target |-> "none",
                    answer |-> "none", raised |-> c.exc]
       ELSE \E resp \in ServiceResponses :
              svc' = [name |-> sv.name, player_id |-> player_id,
                      target |-> c.coordinator, answer |-> AnswerOf(resp),
                      raised |-> HandleBare(Send(sv.verb, resp)).raised]
    /\ UNCHANGED <<setup, registry, services, coord, first, entities>>
    /\ UNCHANGED <<cycleVars, mediaVars, clientVars, actionVars>>

---------------------------------------------------------------------------
\* The state after construction, but for the fault budget.
Constructed ==
    /\ pc = "idle"
    /\ players = <<>> /\ idx = 0 /\ step = 0 /\ entry = NoEntry /\ result = <<>>
    /\ log = <<>>
    /\ cycles = 0
    /\ inflight = 0
    /\ client = NoClientCall
    /\ act = NoAct
    /\ done = NoAction
    /\ actions = 0
    /\ data = NoData
    /\ last_update_success = TRUE
    /\ last_exception = "none"
    /\ served = [list |-> <<>>, ver |-> 0, dropped |-> FALSE]
    /\ twin = [f \in Forms |-> NewTwin]
    /\ clock = 0
    /\ media_cache = EmptyList
    /\ media_cache_ts = 0
    /\ call = [c \in Callers |-> NoCall]
    /\ lastDone = [n |-> 0, last |-> NoSummary, prev |-> NoSummary]
    /\ setup = [e \in EntryIds |-> "not_loaded"]
    /\ registry = <<>>
    /\ services = FALSE
    /\ coord = [e \in EntryIds |-> NewCoordinator]
    /\ first = [e \in EntryIds |-> NoData]
    /\ entities = [e \in EntryIds |-> {}]
    /\ svc = NoSvc

Init == Constructed /\ faults = 0

\* The refresh cycles.
Next ==
    \/ StartCycle
    \/ ListResponse
    \/ SubResponse

Spec == Init /\ [][Next]_vars

\* The media-library cache and its callers.
NextMedia ==
    \/ Tick
    \/ \E c \in Callers : MediaCall(c)
    \/ \E c \in Callers : MediaResponse(c)

SpecMedia == Init /\ [][NextMedia]_vars

\* Calls of the Transport Client, one response each.
NextClient ==
    \/ \E verb \in Verbs : ClientRequest(verb)
    \/ \E m \in ListMethods : ListCall(m)
    \/ TokenCall

SpecClient == Init /\ [][NextClient]_vars

\* Entity and service actions next to the refresh cycles; every sub-fetch
\* is answered with its plain payload.
InitActions == Constructed /\ faults = MaxFaults

NextActions ==
    \/ StartCycle
    \/ ListResponse
    \/ SubResponse
    \/ \E e \in EntryPoints : ActionCall(e)
    \/ ActionResponse

SpecActions == InitActions /\ [][NextActions]_vars

\* Config entries set up and unloaded, their coordinators refreshed and
\* services called, in every interleaving of their suspension points.
NextEntries ==
    \/ \E e \in EntryIds : SetupBegin(e)
    \/ \E e \in EntryIds : FirstRefresh(e)
    \/ \E e \in EntryIds : PlatformsSetUp(e)
    \/ \E e \in EntryIds : Refresh(e)
    \/ \E e \in EntryIds : UnloadBegin(e)
    \/ \E e \in EntryIds : PlatformsUnloaded(e)
    \/ \E sv \in ServiceNames, player_id \in PlayerIds : ServiceCall(sv, player_id)

SpecEntries == Init /\ [][NextEntries]_vars

\* The same with one setup or unload at a time: none is entered while
\* another has not ended.
Settled == \A e \in EntryIds : setup[e] \in {"not_loaded", "loaded"}
NextEntriesSerial ==
    \/ \E e \in EntryIds : Settled /\ SetupBegin(e)
    \/ \E e \in EntryIds : FirstRefresh(e)
    \/ \E e \in EntryIds : PlatformsSetUp(e)
    \/ \E e \in EntryIds : Refresh(e)
    \/ \E e \in EntryIds : Settled /\ UnloadBegin(e)
    \/ \E e \in EntryIds : PlatformsUnloaded(e)
    \/ \E sv \in ServiceNames, player_id \in PlayerIds : ServiceCall(sv, player_id)

SpecEntriesSerial == Init /\ [][NextEntriesSerial]_vars

---------------------------------------------------------------------------
\* Properties of the refresh cycle.

ListRequest == log[1]
SubFetches  == {i \in 2..Len(log) : log[i].answer # "pending"}
CycleOver   == pc = "idle" /\ cycles > 0

\* C1: whenever the player-list fetch ends in a Communication Error
\* (AnthiasApiError that is not an AnthiasAuthError), the cycle ends at once
\* with UpdateFailed, the published snapshot is the one from before, and
\* last_update_success is false afterwards.
C1_ListCommErrorKeepsSnapshot ==
    [][(pc = "list" /\ ListRequest'.out = "AnthiasApiError")
         => /\ ListRequest'.answer \in {"500", "ClientError"}
            /\ pc' = "idle"
            /\ Len(log') = 1
            /\ last_exception' = "UpdateFailed"
            /\ data' = data
            /\ ~last_update_success']_vars

\* A cycle after a published, non-empty snapshot has just failed on an HTTP
\* 500 of the player list.
C1_Witness ==
    /\ CycleOver /\ cycles >= 2
    /\ ListRequest.answer = "500" /\ ListRequest.out = "AnthiasApiError"
    /\ last_exception = "UpdateFailed"
    /\ data.valid /\ DOMAIN data.map # {}

\* C2: whenever the player-list call is answered with 401 or 403, the cycle
\* ends before any sub-fetch is issued, with ConfigEntryAuthFailed and not
\* UpdateFailed, and the published snapshot is the one from before.
C2_ListAuthErrorIsDistinct ==
    [][(pc = "list" /\ ListRequest'.answer \in {"401", "403"})
         => /\ pc' = "idle"
            /\ Len(log') = 1
            /\ last_exception' = "ConfigEntryAuthFailed"
            /\ last_exception' # "UpdateFailed"
            /\ data' = data]_vars

\* A cycle after a published, non-empty snapshot has just ended on a 403.
C2_Witness ==
    /\ CycleOver /\ cycles >= 2
    /\ ListRequest.answer = "403"
    /\ last_exception = "ConfigEntryAuthFailed"
    /\ data.valid /\ DOMAIN data.map # {}

---------------------------------------------------------------------------
\* The cycle that has just ended, as the request log shows it.
ListReturned == CycleOver /\ ListRequest.out = "ok"
HasIds(list) == \A i \in 1..Len(list) : list[i].id # MissingId
Ids(list)    == {Str(list[i].id) : i \in 1..Len(list)}
RecordOf(list, pid) == list[CHOOSE i \in 1..Len(list) : Str(list[i].id) = pid]
Offline(rec) == rec.is_online # "True"

\* Sub-fetches the server did not answer with a 200: an HTTP error status,
\* a network failure or a timeout.
FailedSubs == {i \in SubFetches : log[i].answer # "200"}
Attempted(pid, ep) == \E j \in 2..Len(log) : log[j].pid = pid /\ log[j].ep = ep

\* What sub-fetch k of player pid stores when it gets the plain payload.
PlainValue(k, pid) == ApiCall(Endpoints[k], PlainResponse(Endpoints[k], pid, cycles)).val

\* A cycle over a list of well-formed records in which exactly one sub-fetch
\* failed, with one of the given answers, and every other one got its payload.
OneFailure(answers) ==
    /\ ListReturned
    /\ HasIds(players)
    /\ Cardinality(FailedSubs) = 1
    /\ \A i \in FailedSubs : log[i].answer \in answers
    /\ \A i \in SubFetches \ FailedSubs : log[i].plain

\* After such a cycle: it succeeded, the failing field of the player has its
\* seeded value, and its other four sub-fetches were attempted and stored.
Isolated ==
    LET i   == CHOOSE i \in FailedSubs : TRUE
        pid == log[i].pid
    IN /\ last_update_success
       /\ last_exception = "none"
       /\ data.valid
       /\ pid \in DOMAIN data.map
       /\ \A k \in 1..Len(Endpoints) :
            /\ Attempted(pid, Endpoints[k])
            /\ data.map[pid][Fields[k]] =
                 IF Endpoints[k] = log[i].ep
                 THEN SeedEntry(RecordOf(players, pid))[Fields[k]]
                 ELSE PlainValue(k, pid)

\* C3: for every online player and every choice of exactly one failing
\* sub-fetch, whatever the failure (HTTP error, 401/403, network failure,
\* timeout): the failing field keeps its seeded default, the other
\* sub-fetches are attempted and stored, and the cycle succeeds.
C3_OneFailingSubFetchIsIsolated ==
    OneFailure({"500", "401", "403", "ClientError", "TimeoutError"}) => Isolated

\* C4: a timeout of a sub-fetch is treated as a Communication Error and
\* aborts only that sub-fetch: the cycle goes on to the player's other
\* sub-fetches and is reported as successful.
C4_SubFetchTimeoutIsSwallowed ==
    \A i \in SubFetches :
        log[i].answer = "TimeoutError"
          => /\ log[i].out = "AnthiasApiError"
             /\ (CycleOver => last_update_success /\ last_exception = "none")
             /\ (CycleOver => \A k \in 1..Len(Endpoints) : Attempted(log[i].pid, Endpoints[k]))

\* C5: in the published snapshot the entry of every record that is not
\* online has cec = {}, now_playing = None, schedule_slots = [] and
\* schedule_status = {}, and info is {} or the record's last_status; and a
\* cycle issues no request for a record that is not online.
C5_OfflineEntriesKeepDefaults ==
    /\ data.valid =>
         \A i \in 1..Len(served.list) :
            Offline(served.list[i]) =>
               LET e == data.map[Str(served.list[i].id)] IN
               /\ e.cec = EmptyMap
               /\ e.now_playing = Null
               /\ e.schedule_slots = EmptyList
               /\ e.schedule_status = EmptyMap
               /\ e.info \in {EmptyMap, served.list[i].last_status}
    /\ pc # "list" =>
         \A i \in 1..Len(players) :
            Offline(players[i]) =>
               \A j \in 2..Len(log) : log[j].pid # Str(players[i].id)

\* The published snapshot holds an offline player that carries its
\* last_status as info, next to an online player with fetched CEC data.
C5_Witness ==
    /\ data.valid
    /\ \E i, j \in 1..Len(served.list) :
         /\ Offline(served.list[i])
         /\ Truthy(served.list[i].last_status)
         /\ data.map[Str(served.list[i].id)].info = served.list[i].last_status
         /\ ~Offline(served.list[j])
         /\ data.map[Str(served.list[j].id)].cec # EmptyMap

\* C6: once the player-list fetch has returned, the cycle returns a
\* snapshot, however the sub-fetches end (stated here for lists whose
\* records all carry an id).
C6_CycleFailsOnlyOnListFetch ==
    (ListReturned /\ HasIds(players))
       => (last_update_success /\ last_exception = "none" /\ data.valid)

\* The snapshot is the whole result of the cycle recorded in `served`: its
\* keys are the ids of that cycle's list and every fetched payload in it was
\* served during that cycle.
WholeCycle(m, s) ==
    /\ DOMAIN m = Ids(s.list)
    /\ \A pid \in DOMAIN m : \A k \in 1..Len(Fields) :
         LET v == m[pid][Fields[k]].val IN
         (Len(v) = 3) => (v[2] = pid /\ v[3] = ToString(s.ver))

\* C7: at every point, also while a cycle is suspended at one of its
\* requests, the published snapshot is the whole result of one finished
\* cycle; it does not change while the cycle stays in flight.
C7_SnapshotIsOneWholeCycle ==
    /\ [](data.valid => WholeCycle(data.map, served))
    /\ [][(pc # "idle" /\ pc' # "idle") => data' = data]_vars

\* A later cycle is suspended at the second player, with the first player's
\* new entry built, while the earlier snapshot is still the published one.
C7_Witness ==
    /\ pc = "sub" /\ idx = 2
    /\ DOMAIN result # {}
    /\ data.valid /\ DOMAIN data.map # {}
    /\ served.ver < cycles
    /\ \E pid \in DOMAIN result \cap DOMAIN data.map : result[pid] # data.map[pid]

---------------------------------------------------------------------------
\* Properties of the media-library cache.

Last == lastDone.last
Prev == lastDone.prev

\* The test of the fresh path, on the state in which a call starts.
Fresh == clock - media_cache_ts < MEDIA_CACHE_TTL /\ Truthy(media_cache)

\* The steps of a call: it returns at once without a request, it sends its
\* request and suspends, or its request completes.
HitStep      == lastDone'.n = lastDone.n + 1 /\ lastDone'.last.net = 0
MissStep     == \E c \in Callers : call[c].pc = "idle" /\ call'[c].pc = "fetching"
DoneFetch(c) == call[c].pc = "fetching" /\ call'[c].pc = "idle"

\* The last two completed calls ran one after the other with no other call
\* overlapping either, the second starting less than the TTL after the first.
TwoCallsInWindow ==
    /\ lastDone.n >= 2
    /\ Prev.solo /\ Last.solo
    /\ Last.start - Prev.start < MEDIA_CACHE_TTL

\* C8, as stated: two calls within the TTL window, the first of which
\* returns, send exactly one request to the media endpoint, whatever the
\* first fetch returns and whatever the cache held before.
C8_TwoCallsOneRequest ==
    (TwoCallsInWindow /\ Prev.out # "raised") => Prev.net + Last.net = 1

\* C8, amended: two calls within the TTL window send exactly one request
\* when the first call fetches a non-empty sequence: the second call is
\* served that sequence from the cache.
C8_TwoCallsOneRequestIfNonEmpty ==
    (TwoCallsInWindow /\ Prev.out = "fetched" /\ Truthy(Prev.ret))
       => /\ Prev.net + Last.net = 1
          /\ Last.out = "hit"
          /\ Last.ret = Prev.ret

\* A fetch of a non-empty sequence was followed, some time later but within
\* the window, by a call served from the cache.
C8_Witness ==
    /\ TwoCallsInWindow
    /\ Prev.out = "fetched" /\ Truthy(Prev.ret)
    /\ Last.out = "hit"
    /\ Last.start > Prev.start

\* C9: when the fetch of a call fails (HTTP error, 401, network failure,
\* timeout), the call raises, returns nothing, and the cache and its
\* timestamp are what they were before the fetch completed.
C9_FailedFetchLeavesCache ==
    [][\A c \in Callers :
         (DoneFetch(c) /\ lastDone'.last.answer # "200")
            => /\ lastDone'.last.out = "raised"
               /\ lastDone'.last.exc \in {"AnthiasApiError", "AnthiasAuthError", "TimeoutError"}
               /\ lastDone'.last.ret = Null
               /\ media_cache' = media_cache
               /\ media_cache_ts' = media_cache_ts]_vars

\* A call that found a non-empty but stale cache has just raised, and the
\* stale cache is still in place.
C9_Witness ==
    /\ Last.out = "raised"
    /\ Truthy(media_cache)
    /\ Last.start - media_cache_ts >= MEDIA_CACHE_TTL

\* C10: a call returns the cached sequence without a request exactly when
\* less than the TTL has passed since the cache timestamp and the cache is
\* non-empty; otherwise it fetches, and a successful fetch replaces the cache
\* by the fetched sequence, empty or not, and the timestamp by the time the
\* call started.
C10_CachedIffFreshAndNonEmpty ==
    [][/\ HitStep => /\ Fresh
                     /\ lastDone'.last.ret = media_cache
                     /\ media_cache' = media_cache
                     /\ media_cache_ts' = media_cache_ts
       /\ MissStep => ~Fresh
       /\ \A c \in Callers :
            (DoneFetch(c) /\ lastDone'.last.answer = "200")
               => /\ lastDone'.last.out = "fetched"
                  /\ lastDone'.last.net = 1
                  /\ media_cache' = lastDone'.last.ret
                  /\ media_cache'.kind = "array"
                  /\ media_cache_ts' = call[c].now]_vars

\* A call served from the cache was followed by a call that fetched an
\* empty sequence, which now is the cache.
C10_Witness ==
    /\ Prev.out = "hit"
    /\ Last.out = "fetched" /\ Last.ret = EmptyList
    /\ media_cache = EmptyList
    /\ media_cache_ts = Last.start

---------------------------------------------------------------------------
\* Properties of the list forms and of the snapshot's content.

\* C11: a coordinator that is sent the player records as a paginated
\* {"results": records} mapping and one that is sent them as a bare array,
\* with the same answers to every sub-fetch, are in the same state at every
\* point: same position, same entry under construction, same published
\* snapshot, same flag; and the published snapshot is the one of the
\* coordinator that got either form.
C11_EnvelopeAndArrayAgree ==
    /\ twin["envelope"] = twin["array"]
    /\ twin["envelope"].data = data
    /\ twin["array"].data = data

\* Both have published a snapshot holding an online player with fetched
\* schedule slots.
C11_Witness ==
    /\ CycleOver
    /\ twin["envelope"].pc = "idle" /\ twin["array"].pc = "idle"
    /\ twin["envelope"].data.valid /\ twin["array"].data.valid
    /\ \E pid \in DOMAIN twin["envelope"].data.map \cap DOMAIN twin["array"].data.map :
         /\ twin["envelope"].data.map[pid].schedule_slots # EmptyList
         /\ twin["array"].data.map[pid] = twin["envelope"].data.map[pid]

\* The number of the cycle that completed last.
LastCompleted == IF pc = "idle" THEN cycles ELSE cycles - 1
CycleEnds     == pc # "idle" /\ pc' = "idle"
CycleReturns  == CycleEnds /\ served'.ver = cycles

C17_KeysAreTheListIds ==
    /\ [](data.valid => DOMAIN data.map = Ids(served.list))
    /\ [][CycleReturns =>
            /\ DOMAIN data'.map = Ids(players')
            /\ \A pid \in DOMAIN data.map : pid \notin Ids(players') => pid \notin DOMAIN data'.map]_vars

\* The second cycle returned a non-empty snapshot that lacks a player of the
\* first cycle's snapshot.
C17_Witness ==
    /\ CycleOver /\ served.ver = 2
    /\ served.dropped
    /\ data.valid /\ DOMAIN data.map # {}
    /\ DOMAIN data.map = Ids(served.list)

\* Sub-fetches answered with 401 or 403.
AuthSubs == {i \in SubFetches : log[i].answer \in {"401", "403"}}

\* C18: a sub-fetch answered with 401 or 403 ends in AnthiasAuthError, and
\* the cycle goes on as after a Communication Error: it is not ended by that
\* sub-fetch (stated for lists whose records all carry an id) and never
\* reports ConfigEntryAuthFailed; when it is the only failing sub-fetch of
\* the cycle, the field keeps its seeded value, the
\* player's other sub-fetches are issued and stored and the cycle succeeds.
C18_SubFetchAuthErrorIsSwallowed ==
    /\ \A i \in AuthSubs :
         /\ log[i].out = "AnthiasAuthError"
         /\ (i = Len(log) /\ HasIds(players))
               => (CycleOver /\ last_update_success /\ data.valid)
    /\ (ListReturned => last_exception # "ConfigEntryAuthFailed")
    /\ (OneFailure({"401", "403"}) => Isolated)

\* The first of two online players got a 401 on one sub-fetch; the cycle
\* succeeded and the second player's data was fetched.
C18_Witness ==
    /\ OneFailure({"401"}) /\ Isolated
    /\ Len(players) = 2
    /\ \E i \in AuthSubs : log[i].pid = Str(players[1].id)
    /\ data.map[Str(players[2].id)].cec # EmptyMap

\* The info requests of the cycle that has just returned.
InfoFetches == {i \in SubFetches : log[i].ep = "info"}
SeededInfo(rec) == IF Truthy(rec.last_status) THEN rec.last_status ELSE EmptyMap

\* C19: after a cycle has returned, every online record's entry has as info
\* the body of the live info response when that fetch succeeded, whatever
\* last_status was, and otherwise the record's last_status if that is
\* non-empty and {} if not; and the info request was issued for every
\* online record.
C19_InfoIsLiveOrLastStatus ==
    (CycleOver /\ served.ver = cycles) =>
       /\ \A i \in InfoFetches :
            LET pid == log[i].pid IN
            data.map[pid].info = IF log[i].out = "ok" THEN log[i].body
                                 ELSE SeededInfo(RecordOf(served.list, pid))
       /\ \A j \in 1..Len(served.list) :
            ~Offline(served.list[j]) => Attempted(Str(served.list[j].id), "info")

\* An online player with a non-empty last_status whose live info came back
\* as the empty mapping: info is the empty mapping.
C19_Witness ==
    /\ CycleOver /\ served.ver = cycles
    /\ \E i \in InfoFetches :
         /\ log[i].out = "ok" /\ log[i].body = EmptyMap
         /\ Truthy(RecordOf(served.list, log[i].pid).last_status)
         /\ data.map[log[i].pid].info = EmptyMap

---------------------------------------------------------------------------
\* Properties of the Transport Client.

Called(fns) == client.fn \in fns
Http(sts)   == client.resp.err = "none" /\ client.resp.status \in sts

C13_OutcomeIsFunctionOfResponse ==
    Called(Verbs) =>
       /\ Http({401, 403}) => client.out.exc = "AnthiasAuthError"
       /\ (client.resp.err # "none" \/ Http(Statuses \ ({401, 403} \cup 200..299)))
             => client.out.exc = "AnthiasApiError"
       /\ (Http(200..299) /\ client.resp.body.kind # "text")
             => client.out = Return(client.resp.body)

\* The first entry of the body's non_field_errors list, if there is one.
UsableMessage(b) ==
    IF HasKey(b, "non_field_errors") /\ b.item.kind = "array" /\ b.item.val # <<>>
    THEN b.item.val[1]
    ELSE "Invalid credentials"

\* C20: for every 400 answer of the token endpoint, whatever the body,
\* async_get_token raises AnthiasAuthError with the first entry of
\* non_field_errors as message, or "Invalid credentials" when there is no
\* such entry.
C20_Token400IsAuthError ==
    (Called({"async_get_token"}) /\ Http({400}))
       => /\ client.out.exc = "AnthiasAuthError"
          /\ client.out.msg = UsableMessage(client.resp.body)

---------------------------------------------------------------------------
\* Properties of the actions and of the on-demand refresh.

ActionStarts    == act.pc = "idle" /\ act'.pc = "calling"
ActionCompletes == act.pc = "calling" /\ act'.pc = "idle"

\* C15: at most one run of _async_update_data is in flight; a cycle starts
\* only while none is running, from the timer or from a refresh request; a
\* refresh request made while a cycle is running changes nothing of the
\* cycle and starts none.
C15_OneCycleInFlight ==
    /\ [](inflight <= 1)
    /\ [](inflight = IF pc = "idle" THEN 0 ELSE 1)
    /\ [][cycles' # cycles => (pc = "idle" /\ inflight = 0 /\ cycles' = cycles + 1)]_vars
    /\ [][(ActionCompletes /\ done'.refresh = "started")
            => (pc = "idle" /\ pc' = "list" /\ cycles' = cycles + 1)]_vars
    /\ [][(ActionCompletes /\ done'.refresh = "coalesced")
            => (pc # "idle" /\ UNCHANGED cycleVars)]_vars

\* A switch or media-player action completed while a cycle was suspended at
\* a sub-fetch: its refresh request was absorbed and that cycle is the only
\* one in flight.
C15_Witness ==
    /\ done.refresh = "coalesced"
    /\ act.pc = "idle"
    /\ pc = "sub"
    /\ inflight = 1

\* C16, as stated: every action leaves the snapshot alone and is followed
\* by a refresh request (taken here for the actions whose api call returned).
C16_ActionsAreFollowedByRefresh ==
    [][(ActionCompletes /\ done'.out = "ok")
         => (data' = data /\ done'.refresh # "none")]_vars

\* C16, amended: every action makes its api call and leaves the snapshot,
\* the flag and the cycle's record alone; a refresh is requested exactly
\* after a switch or media-player action whose api call returned, and after
\* no button press and no service call; without a request the cycle state
\* is untouched.
C16_RefreshOnlyAfterGuardedSuccess ==
    /\ [][(ActionStarts \/ ActionCompletes)
            => /\ data' = data
               /\ last_update_success' = last_update_success
               /\ served' = served]_vars
    /\ [][ActionCompletes
            => /\ done'.answer # "none"
               /\ done'.refresh # "none"
                    <=> (done'.kind \in {"switch", "media_player"} /\ done'.out = "ok")
               /\ done'.refresh = "none" => UNCHANGED cycleVars]_vars

\* A switch action succeeded while no cycle was running: the refresh it
\* requested has started, and the non-empty snapshot is still the published
\* one.
C16_Witness ==
    /\ done.kind = "switch" /\ done.out = "ok"
    /\ done.refresh = "started"
    /\ pc = "list"
    /\ data.valid /\ DOMAIN data.map # {}

C26_RefreshIffCallReturned ==
    [][(ActionCompletes /\ done'.kind \in {"switch", "media_player"})
         => /\ done'.refresh \in {"started", "coalesced"} <=> done'.out = "ok"
            /\ IsApiError(done'.out)
                 => /\ done'.raised = "none"
                    /\ done'.refresh = "none"
                    /\ UNCHANGED cycleVars]_vars

\* A media-player action was answered with 500: nothing was raised and no
\* refresh was requested.
C26_Witness ==
    /\ done.kind = "media_player"
    /\ done.answer = "500" /\ done.out = "AnthiasApiError"
    /\ done.raised = "none"
    /\ done.refresh = "none"

NowPlayingFetches == {i \in SubFetches : log[i].ep = "now-playing"}

\* C25: after a cycle has returned, every online player's now_playing is
\* null when the response body was falsy (null, {} or []), the body itself
\* when it was not, and null as well when the fetch failed; so it is null
\* or a non-empty value, and null stands for both "nothing playing" and
\* "fetch failed".
C25_NowPlayingIsNullOrNonEmpty ==
    (CycleOver /\ served.ver = cycles) =>
       /\ \A i \in NowPlayingFetches :
            LET np == data.map[log[i].pid].now_playing IN
            /\ np = (IF log[i].out = "ok" /\ Truthy(log[i].body) THEN log[i].body ELSE Null)
            /\ np = Null \/ Truthy(np)
       /\ \A j \in 1..Len(served.list) :
            ~Offline(served.list[j]) => Attempted(Str(served.list[j].id), "now-playing")

\* An online player whose now-playing request was answered 200 with an
\* empty list: the entry reads null.
C25_Witness ==
    /\ CycleOver /\ served.ver = cycles
    /\ \E i \in NowPlayingFetches :
         /\ log[i].out = "ok" /\ log[i].body = EmptyList
         /\ data.map[log[i].pid].now_playing = Null

\* The requests a cycle issues for a player list, in order: the list
\* request, then five per online record.
RECURSIVE Expected(_, _)
Expected(list, i) ==
    IF i > Len(list) THEN <<>>
    ELSE (IF Offline(list[i]) THEN <<>>
          ELSE [k \in 1..Len(Endpoints) |-> <<Endpoints[k], Str(list[i].id)>>])
         \o Expected(list, i + 1)
Issued == [i \in 1..Len(log) |-> <<log[i].ep, log[i].pid>>]
Online(list) == {i \in 1..Len(list) : ~Offline(list[i])}
NoTimeouts == \A i \in 1..Len(log) : log[i].answer # "TimeoutError"

\* The order of the requests of a cycle, and one request at a time: only
\* the last request of the log can be unanswered, and once the list has
\* returned the requests issued so far are the first ones of the fixed
\* sequence.
InOrder ==
    /\ \A i \in 1..Len(log) : log[i].answer = "pending" => i = Len(log) /\ pc # "idle"
    /\ inflight <= 1
    /\ (cycles > 0 /\ ListRequest.out = "ok") =>
          LET e == <<<<"players", "">>>> \o Expected(players, 1) IN
          /\ Len(log) <= Len(e)
          /\ \A i \in 1..Len(log) : Issued[i] = e[i]

\* C27: the requests of a cycle are issued one at a time in the fixed
\* order, and a cycle that has passed the list fetch and ended has issued
\* exactly 1 + 5 x (number of online records) requests, whatever the
\* outcome of each sub-fetch.
C27_OneRequestPerSubFetch ==
    /\ InOrder
    /\ ListReturned => Len(log) = 1 + 5 * Cardinality(Online(players))

\* The same for cycles without a timeout whose records all have an id.
CountWithoutTimeout ==
    (NoTimeouts /\ HasIds(players)) => C27_OneRequestPerSubFetch

EntryFields == {"id", "name", "is_online", "last_seen", "info", "cec",
                "now_playing", "schedule_slots", "schedule_status"}

\* C28: every entry of the snapshot a cycle returned has exactly the nine
\* fields, its id is the key it is stored under, its name is the record's
\* name or, when the record has none, the id, and its is_online is the
\* record's or, when the record has none, false.
C28_EntriesHaveNineFields ==
    served.ver > 0 =>
       \A pid \in DOMAIN data.map :
          LET e   == data.map[pid]
              rec == RecordOf(served.list, pid)
          IN /\ DOMAIN e = EntryFields
             /\ e.id = pid
             /\ e.name = (IF rec.name = Missing THEN pid ELSE rec.name)
             /\ e.is_online = (IF rec.is_online = Missing THEN "False" ELSE rec.is_online)

\* A returned snapshot with an entry whose record had no name and an entry
\* whose record had no is_online.
C28_Witness ==
    /\ CycleOver /\ served.ver = cycles
    /\ \E p, q \in DOMAIN data.map :
         /\ RecordOf(served.list, p).name = Missing
         /\ data.map[p].name = p
         /\ RecordOf(served.list, q).is_online = Missing
         /\ data.map[q].is_online = "False"

\* A suspended call of async_get_media_files completes in this step.
FetchCompletes(c) == call[c].pc = "fetching" /\ call'[c].pc = "idle"

\* C29: with calls overlapping in every way, the cache and the timestamp
\* start as ([], 0) and change only in the step in which a fetch completes
\* successfully, and then both are written: the cache is that fetch's
\* result and the timestamp the time that very call started, whatever a
\* call that completed earlier had written; a fetch that fails and a call
\* served from the cache write neither.
C29_CacheAndStampWrittenTogether ==
    /\ media_cache = EmptyList /\ media_cache_ts = 0
    /\ [][(\A c \in Callers :
              FetchCompletes(c) =>
                 IF lastDone'.last.out = "fetched"
                 THEN /\ media_cache' = lastDone'.last.ret
                      /\ media_cache_ts' = call[c].now
                      /\ lastDone'.last.start = call[c].now
                 ELSE UNCHANGED <<media_cache, media_cache_ts>>)
           /\ ((\A d \in Callers : ~FetchCompletes(d))
                 => UNCHANGED <<media_cache, media_cache_ts>>)]_vars

\* Two calls overlapped, the one that started later completed first and
\* the one that started earlier completed last: the cache holds the result
\* of the earlier call and the timestamp is that call's start, which is
\* before the start of the call that completed before it.
C29_Witness ==
    /\ lastDone.n >= 2
    /\ lastDone.last.out = "fetched" /\ lastDone.prev.out = "fetched"
    /\ ~lastDone.last.solo
    /\ lastDone.last.start < lastDone.prev.start
    /\ lastDone.last.ret # lastDone.prev.ret
    /\ media_cache = lastDone.last.ret
    /\ media_cache_ts = lastDone.last.start

---------------------------------------------------------------------------
\* Properties of the config entries, the services and the entities.

InRegistry(e) == \E i \in 1..Len(registry) : registry[i] = e

\* C22: whenever no setup and no unload is under way, the services are
\* registered if and only if the registry holds a coordinator; and in every
\* state the registry holds exactly the coordinators of the entries whose
\* first refresh has returned and that have not been unloaded.
C22_ServicesIffCoordinator ==
    /\ Settled => (services <=> registry # <<>>)
    /\ \A e \in EntryIds : InRegistry(e) <=> setup[e] \in {"forwarding", "loaded", "unloading"}

\* C23: a service call, whatever service and whatever player_id it names,
\* goes to the api of the coordinator that is first in the registry, the
\* one inserted earliest of those still there; with an empty registry
\* _get_coordinator raises ValueError and no request is sent.
C23_ServicesUseFirstCoordinator ==
    /\ get_coordinator(<<>>) = [exc |-> "ValueError", coordinator |-> "none"]
    /\ svc # NoSvc =>
          IF registry = <<>>
          THEN svc.target = "none" /\ svc.raised = "ValueError" /\ svc.answer = "none"
          ELSE svc.target = registry[1] /\ svc.answer # "none" /\ svc.raised # "ValueError"

\* Two coordinators in the registry; a service call names a player that
\* only the second coordinator's snapshot holds, and its request went to
\* the first coordinator's api.
C23_Witness ==
    /\ Len(registry) = 2
    /\ svc.player_id = "2"
    /\ "2" \notin DOMAIN coord[registry[1]].data.map
    /\ "2" \in DOMAIN coord[registry[2]].data.map
    /\ svc.target = registry[1]
    /\ svc.answer = "200"

Known(c, pid) == pid \in DOMAIN c.data.map
OfflineIn(c, pid) == Known(c, pid) /\ c.data.map[pid].is_online # "True"

\* C24: for every entity a platform has added: it is unavailable when the
\* coordinator's last_update_success is false or its player id is not a key
\* of the coordinator's data, on every platform; a sensor, a button and a
\* camera are unavailable as well when the player is offline; the online
\* binary sensor and the media player are available whenever the flag is
\* true and the id is a key, offline or not.
C24_AvailabilityFollowsFlagAndKey ==
    \A e \in EntryIds : \A ent \in entities[e] :
       LET c == coord[e] IN
       /\ (~c.last_update_success \/ ~Known(c, ent.pid)) => ~Available(ent, c)
       /\ (ent.platform \in {"sensor", "button", "camera"} /\ OfflineIn(c, ent.pid))
            => ~Available(ent, c)
       /\ (ent.platform \in {"binary_sensor", "media_player"}
              /\ c.last_update_success /\ Known(c, ent.pid))
            => Available(ent, c)

\* A player that is offline in the current snapshot of a successful
\* refresh: its online sensor and media player are available, its camera,
\* its reboot button and its uptime sensor are not.
C24_Witness ==
    \E e \in EntryIds :
       LET c == coord[e] IN
       /\ c.last_update_success /\ OfflineIn(c, "p1")
       /\ {Entity("binary_sensor", "p1", "online"), Entity("media_player", "p1", "player"),
            Entity("camera", "p1", "screenshot"), Entity("button", "p1", "reboot"),
            Entity("sensor", "p1", "uptime")} \subseteq entities[e]
       /\ Available(Entity("binary_sensor", "p1", "online"), c)
       /\ Available(Entity("media_player", "p1", "player"), c)
       /\ ~Available(Entity("camera", "p1", "screenshot"), c)
       /\ ~Available(Entity("button", "p1", "reboot"), c)
       /\ ~Available(Entity("sensor", "p1", "uptime"), c)

\* The entities every player of a snapshot gets, whatever its CEC status.
PerPlayer(pid) ==
    {Entity("binary_sensor", pid, "online"), Entity("camera", pid, "screenshot"),
     Entity("media_player", pid, "player")}
    \cup {Entity("button", pid, k) : k \in BUTTON_DESCRIPTIONS}
    \cup {Entity("sensor", pid, k) : k \in SENSOR_DESCRIPTIONS \cup SCHEDULE_SENSOR_DESCRIPTIONS}

\* C30: a coordinator is in the registry, and an entry has entities, only
\* after its first refresh has returned a snapshot; and as long as the
\* entry is loaded its entities are those of the players of that first
\* snapshot, with a CEC switch exactly for the players whose cec_available
\* was true in it, whatever later refreshes returned: a player that is only
\* in a later snapshot has no entity, and the entities of a player that is
\* no longer in the snapshot are still there and unavailable.
C30_EntitiesFixedAtFirstSnapshot ==
    \A e \in EntryIds :
       /\ (InRegistry(e) \/ entities[e] # {}) => first[e].valid /\ coord[e].data.valid
       /\ setup[e] \in {"not_loaded", "first_refresh", "forwarding"} => entities[e] = {}
       /\ setup[e] \in {"loaded", "unloading"} =>
            /\ entities[e] =
                  UNION {PerPlayer(pid) : pid \in DOMAIN first[e].map}
                  \cup {Entity("switch", pid, "display") :
                          pid \in {p \in DOMAIN first[e].map :
                                     CecAvailable(first[e].map[p].cec)}}
            /\ \A ent \in entities[e] :
                  ~Known(coord[e], ent.pid) => ~Available(ent, coord[e])

\* A loaded entry whose first snapshot had players p1, without CEC, and 2,
\* and whose current snapshot has only p1, now with CEC: p1 has no switch,
\* and the entities of 2 are still there and unavailable.
C30_Witness ==
    \E e \in EntryIds :
       /\ setup[e] = "loaded" /\ coord[e].last_update_success
       /\ DOMAIN first[e].map = {"p1", "2"}
       /\ DOMAIN coord[e].data.map = {"p1"}
       /\ CecAvailable(coord[e].data.map["p1"].cec)
       /\ Entity("switch", "p1", "display") \notin entities[e]
       /\ PerPlayer("2") \subseteq entities[e]
       /\ \A ent \in PerPlayer("2") : ~Available(ent, coord[e])

\* A loaded entry whose current snapshot has a player that its first
\* snapshot did not have: the player has no entity.
NewPlayerWithoutEntities ==
    \E e \in EntryIds :
       /\ setup[e] = "loaded"
       /\ Known(coord[e], "2") /\ "2" \notin DOMAIN first[e].map
       /\ \A ent \in entities[e] : ent.pid # "2"

====
